---------------------------- MODULE Spec2Model ----------------------------
(***************************************************************************)
(* A state-machine model of src/main.py: the Instructor class (its         *)
(* constructor, the training pass _train, the evaluation pass _test and    *)
(* the run controller run).                                                *)
(*                                                                         *)
(* Abstractions, stated once:                                              *)
(*  - Numbers.  Python's float results n_correct / n_test and              *)
(*    test_loss / n_test are kept as exact fractions <<num, den>> and      *)
(*    compared by cross-multiplication; a per-batch loss.item() is an      *)
(*    integer number of loss quanta.  Float rounding is not modelled.      *)
(*  - The network.  model.py is not among the sources.  The trainable      *)
(*    parameters are one value of 0..NumParams-1, the forward pass is the  *)
(*    operator Forward, and an optimizer step may leave any parameter      *)
(*    value behind.                                                        *)
(*  - The data.  data.py is not among the sources.  load_data is the       *)
(*    operator BatchesOf: a data set of n samples cut into batches of the  *)
(*    configured size, the last one possibly smaller.                      *)
(*  - Logging and the learning-rate values are left out; the number of     *)
(*    optimizer and scheduler steps is kept.                               *)
(***************************************************************************)
EXTENDS Integers, Sequences, FiniteSets, TLC

\* ---------------------------------------------------------------- bounds
MaxEpoch == 2
MaxTrainSamples == 3
MaxTestSamples == 2
MaxBatchSize == 2

\* ------------------------------------------------- the abstract network
\* Number of distinct parameter values of the abstract network.
NumParams == 3
Params == 0..(NumParams - 1)
\* Dropout outcomes of one forward pass in training mode.
Noise == 0..1

ModelNames == {"bert", "roberta", "gpt"}
MethodNames == {"fnn", "lstm", "cnn"}

VARIABLES
  pc,               \* position of the control flow
  err,              \* the exception that ended the execution, or "none"
  model_name,       \* args.model_name
  method_name,      \* args.method_name
  num_epoch,        \* args.num_epoch
  loaded,           \* load_data has been called
  train_dataloader, \* batch sizes of the train stream
  test_dataloader,  \* batch sizes of the test stream
  params,           \* Model State: the trainable parameters
  training,         \* the module's mode flag (model.train() / model.eval())
  optimizer_steps,  \* calls of optimizer.step()
  scheduler_steps,  \* calls of scheduler.step()
  total_steps,      \* num_training_steps the schedule was built with
  epoch,            \* the loop variable of run
  i,                \* batches of the current pass already consumed
  predicts,         \* forward output of the batch in hand
  tot_loss,         \* train_loss of _train / test_loss of _test (the accumulator)
  n_correct,        \* n_correct of the current pass
  n_total,          \* n_train of _train / n_test of _test
  train_ret,        \* (train_loss, train_acc) of run
  test_ret,         \* (test_loss, test_acc) of run
  best_acc,
  best_loss,
  l_epo,
  l_acc,
  logged_best,      \* <<>>, or the one 'best loss / best acc' log line written
  image,            \* <<>>, or the <<l_epo, l_acc>> plotted into image.png
  \* history variables, read by the properties only
  passLog,          \* <<size, loss, correct, predicts>> of each batch of the pass
  results,          \* what each completed _test call returned
  train_calls,      \* invocations of _train
  test_calls,       \* invocations of _test
  entry_state,      \* Model State and step counts when the current pass began
  first_ret,        \* what the first of two consecutive _test calls returned
  first_log         \* and its passLog

vars == <<pc, err, model_name, method_name, num_epoch, loaded, train_dataloader,
          test_dataloader, params, training, optimizer_steps, scheduler_steps,
          total_steps, epoch, i, predicts, tot_loss, n_correct, n_total,
          train_ret, test_ret, best_acc, best_loss, l_epo, l_acc, logged_best,
          image, passLog, results, train_calls, test_calls, entry_state,
          first_ret, first_log>>

\* ----------------------------------------------------------- fractions
Frac(n, d) == <<n, d>>
Zero == Frac(0, 1)
RatLess(a, b) == a[1] * b[2] < b[1] * a[2]
RatEq(a, b) == a[1] * b[2] = b[1] * a[2]
RatLeq(a, b) == a[1] * b[2] <= b[1] * a[2]

Min(a, b) == IF a < b THEN a ELSE b

NoRet == [loss |-> Zero, acc |-> Zero]

\* ------------------------------------------------------------ the data
\* The batch sizes of a stream over n samples with batch size bs.
BatchesOf(n, bs) ==
  [k \in 1..((n + bs - 1) \div bs) |-> IF k * bs <= n THEN bs ELSE n - (k - 1) * bs]

\* ----------------------------------------------------- the forward pass
\* self.model(inputs): the logits, as a code of 0..NumParams-1.  In evaluation
\* mode they are a function of the parameters; in training mode dropout adds
\* its noise.
Forward(p, train, noise) == IF train THEN (p + noise) % NumParams ELSE p
\* criterion(predicts, targets): the batch's loss.item(), in loss quanta.
Criterion(q) == (NumParams - 1) - q
\* (torch.argmax(predicts, dim=1) == targets).sum().item(): one comparison
\* per sample of the batch, so never more than the batch holds.
NumCorrect(q, size) == Min(size, q)

\* ------------------------------------------------------------ __init__
ConfigErrorNoMethodCheck(mn, meth) ==
  IF mn \notin {"bert", "roberta"} THEN "unknown model" ELSE "none"

\* The ValueError __init__ raises for these args, "none" when it raises none.
ConfigError(mn, meth) ==
  IF mn \notin {"bert", "roberta"} THEN "unknown model"
  ELSE IF meth \notin {"fnn", "lstm"} THEN "unknown method"
  ELSE "none"

Init ==
  /\ pc = "start"
  /\ err = "none"
  /\ model_name = "unset"
  /\ method_name = "unset"
  /\ num_epoch = 0
  /\ loaded = FALSE
  /\ train_dataloader = <<>>
  /\ test_dataloader = <<>>
  /\ params = 0
  /\ training = TRUE
  /\ optimizer_steps = 0
  /\ scheduler_steps = 0
  /\ total_steps = 0
  /\ epoch = 0
  /\ i = 0
  /\ predicts = 0
  /\ tot_loss = 0
  /\ n_correct = 0
  /\ n_total = 0
  /\ train_ret = NoRet
  /\ test_ret = NoRet
  /\ best_acc = Zero
  /\ best_loss = Zero
  /\ l_epo = <<>>
  /\ l_acc = <<>>
  /\ logged_best = <<>>
  /\ image = <<>>
  /\ passLog = <<>>
  /\ results = <<>>
  /\ train_calls = 0
  /\ test_calls = 0
  /\ entry_state = <<0, 0, 0>>
  /\ first_ret = NoRet
  /\ first_log = <<>>

runVars == <<best_acc, best_loss, l_epo, l_acc, logged_best, image, epoch,
             train_ret, test_ret, total_steps>>
passVars == <<i, predicts, tot_loss, n_correct, n_total>>
argVars == <<model_name, method_name, num_epoch>>
dataVars == <<loaded, train_dataloader, test_dataloader>>
stepVars == <<optimizer_steps, scheduler_steps>>
histVars == <<passLog, results, train_calls, test_calls, entry_state,
              first_ret, first_log>>

\* Instructor(args, logger): the args are the inputs.  The base model and the
\* head are built (the head's weights are random) unless the names are unknown.
Construct ==
  /\ pc = "start"
  /\ \E mn \in ModelNames, meth \in MethodNames, ne \in 0..MaxEpoch :
       /\ model_name' = mn
       /\ method_name' = meth
       /\ num_epoch' = ne
       /\ IF ConfigError(mn, meth) # "none"
            THEN /\ pc' = "error"
                 /\ err' = ConfigError(mn, meth)
                 /\ UNCHANGED params
            ELSE /\ pc' = "constructed"
                 /\ params' \in Params
                 /\ UNCHANGED err
  /\ UNCHANGED <<dataVars, training, stepVars, runVars, passVars, histVars>>

\* run, up to the loop: load_data, the optimizer, the schedule and its
\* total_steps, the Best Snapshot and the history.
RunSetup ==
  /\ pc = "constructed"
  /\ \E ntrain \in 0..MaxTrainSamples, ntest \in 0..MaxTestSamples,
        train_batch_size \in 1..MaxBatchSize, test_batch_size \in 1..MaxBatchSize :
       /\ train_dataloader' = BatchesOf(ntrain, train_batch_size)
       /\ test_dataloader' = BatchesOf(ntest, test_batch_size)
  /\ loaded' = TRUE
  /\ total_steps' = Len(train_dataloader') * num_epoch
  /\ best_loss' = Zero
  /\ best_acc' = Zero
  /\ l_acc' = <<>>
  /\ l_epo' = <<>>
  /\ epoch' = 0
  /\ pc' = "loop"
  /\ UNCHANGED <<err, argVars, params, training, stepVars, train_ret, test_ret,
                 logged_best, image, passVars, histVars>>

\* ------------------------------------------------- the accumulator steps
AccLossUnweighted(tot, loss, size) == tot + loss

\* train_loss += loss.item() * targets.size(0)
AccLoss(tot, loss, size) == tot + loss * size

AccSeenByBatch(n, size) == n + 1

\* n_train += targets.size(0)
AccSeen(n, size) == n + size

\* ---------------------------------------------------------------- _train
TrainEnterAgain ==
  /\ pc \in {"loop", "train_ret"}
  /\ epoch < num_epoch
  /\ tot_loss' = 0
  /\ n_correct' = 0
  /\ n_total' = 0
  /\ i' = 0
  /\ training' = TRUE
  /\ pc' = "train_head"
  /\ passLog' = <<>>
  /\ train_calls' = train_calls + 1
  /\ entry_state' = <<params, optimizer_steps, scheduler_steps>>
  /\ UNCHANGED <<err, argVars, dataVars, params, stepVars, runVars, predicts,
                 results, test_calls, first_ret, first_log>>

\* run's loop takes its next epoch and calls _train: the accumulators are
\* zeroed and the model put in training mode.
TrainEnter ==
  /\ pc = "loop"
  /\ epoch < num_epoch
  /\ tot_loss' = 0
  /\ n_correct' = 0
  /\ n_total' = 0
  /\ i' = 0
  /\ training' = TRUE
  /\ pc' = "train_head"
  /\ passLog' = <<>>
  /\ train_calls' = train_calls + 1
  /\ entry_state' = <<params, optimizer_steps, scheduler_steps>>
  /\ UNCHANGED <<err, argVars, dataVars, params, stepVars, runVars, predicts,
                 results, test_calls, first_ret, first_log>>

\* The next batch: forward pass and loss, zero_grad, backward.
TrainForward ==
  /\ pc = "train_head"
  /\ i < Len(train_dataloader)
  /\ \E noise \in Noise : predicts' = Forward(params, training, noise)
  /\ pc' = "train_opt"
  /\ UNCHANGED <<err, argVars, dataVars, params, training, stepVars, runVars,
                 i, tot_loss, n_correct, n_total, histVars>>

\* optimizer.step(): the parameters move (or stay) as the gradients say.
OptimizerStep ==
  /\ pc = "train_opt"
  /\ params' \in Params
  /\ optimizer_steps' = optimizer_steps + 1
  /\ pc' = "train_sched"
  /\ UNCHANGED <<err, argVars, dataVars, training, scheduler_steps, runVars,
                 passVars, histVars>>

SchedulerStepSkipped ==
  /\ pc = "train_sched"
  /\ pc' = "train_acc"
  /\ UNCHANGED <<err, argVars, dataVars, params, training, stepVars,
                 runVars, passVars, histVars>>

\* scheduler.step()
SchedulerStep ==
  /\ pc = "train_sched"
  /\ scheduler_steps' = scheduler_steps + 1
  /\ pc' = "train_acc"
  /\ UNCHANGED <<err, argVars, dataVars, params, training, optimizer_steps,
                 runVars, passVars, histVars>>

\* The three += of the batch.
TrainAccumulate ==
  /\ pc = "train_acc"
  /\ LET size == train_dataloader[i + 1]
         loss == Criterion(predicts)
         hits == NumCorrect(predicts, size)
     IN  /\ tot_loss' = AccLoss(tot_loss, loss, size)
         /\ n_correct' = n_correct + hits
         /\ n_total' = AccSeen(n_total, size)
         /\ passLog' = Append(passLog, <<size, loss, hits, predicts>>)
  /\ i' = i + 1
  /\ pc' = "train_head"
  /\ UNCHANGED <<err, argVars, dataVars, params, training, stepVars, runVars,
                 predicts, results, train_calls, test_calls, entry_state,
                 first_ret, first_log>>

\* return train_loss / n_train, n_correct / n_train
TrainReturn ==
  /\ pc = "train_head"
  /\ i = Len(train_dataloader)
  /\ IF n_total = 0
       THEN /\ pc' = "error"
            /\ err' = "ZeroDivisionError"
            /\ UNCHANGED train_ret
       ELSE /\ pc' = "train_ret"
            /\ train_ret' = [loss |-> Frac(tot_loss, n_total),
                             acc |-> Frac(n_correct, n_total)]
            /\ UNCHANGED err
  /\ UNCHANGED <<argVars, dataVars, params, training, stepVars, best_acc,
                 best_loss, l_epo, l_acc, logged_best, image, epoch, test_ret,
                 total_steps, passVars, histVars>>

\* ----------------------------------------------------------------- _test
\* _test is called: the accumulators are zeroed, the model put in evaluation
\* mode and gradient tracking switched off.
TestEnter ==
  /\ pc \in {"train_ret", "test_call"}
  /\ tot_loss' = 0
  /\ n_correct' = 0
  /\ n_total' = 0
  /\ i' = 0
  /\ training' = FALSE
  /\ pc' = "test_head"
  /\ passLog' = <<>>
  /\ test_calls' = test_calls + 1
  /\ entry_state' = <<params, optimizer_steps, scheduler_steps>>
  /\ UNCHANGED <<err, argVars, dataVars, params, stepVars, runVars, predicts,
                 results, train_calls, first_ret, first_log>>

TestBatchWithOptimizerStep ==
  /\ pc = "test_head"
  /\ i < Len(test_dataloader)
  /\ \E noise \in Noise : predicts' = Forward(params, training, noise)
  /\ LET size == test_dataloader[i + 1]
         loss == Criterion(predicts')
         hits == NumCorrect(predicts', size)
     IN  /\ tot_loss' = AccLoss(tot_loss, loss, size)
         /\ n_correct' = n_correct + hits
         /\ n_total' = AccSeen(n_total, size)
         /\ passLog' = Append(passLog, <<size, loss, hits, predicts'>>)
  /\ i' = i + 1
  /\ params' = (params + 1) % NumParams
  /\ optimizer_steps' = optimizer_steps + 1
  /\ UNCHANGED <<pc, err, argVars, dataVars, training, scheduler_steps,
                 runVars, results, train_calls, test_calls, entry_state,
                 first_ret, first_log>>

\* One batch of the evaluation: forward pass, loss, the three +=.
TestBatch ==
  /\ pc = "test_head"
  /\ i < Len(test_dataloader)
  /\ \E noise \in Noise : predicts' = Forward(params, training, noise)
  /\ LET size == test_dataloader[i + 1]
         loss == Criterion(predicts')
         hits == NumCorrect(predicts', size)
     IN  /\ tot_loss' = AccLoss(tot_loss, loss, size)
         /\ n_correct' = n_correct + hits
         /\ n_total' = AccSeen(n_total, size)
         /\ passLog' = Append(passLog, <<size, loss, hits, predicts'>>)
  /\ i' = i + 1
  /\ UNCHANGED <<pc, err, argVars, dataVars, params, training, stepVars,
                 runVars, results, train_calls, test_calls, entry_state,
                 first_ret, first_log>>

\* return test_loss / n_test, n_correct / n_test
TestReturn ==
  /\ pc = "test_head"
  /\ i = Len(test_dataloader)
  /\ IF n_total = 0
       THEN /\ pc' = "error"
            /\ err' = "ZeroDivisionError"
            /\ UNCHANGED <<test_ret, results>>
       ELSE /\ pc' = "test_ret"
            /\ test_ret' = [loss |-> Frac(tot_loss, n_total),
                            acc |-> Frac(n_correct, n_total)]
            /\ results' = Append(results, test_ret')
            /\ UNCHANGED err
  /\ UNCHANGED <<argVars, dataVars, params, training, stepVars, best_acc,
                 best_loss, l_epo, l_acc, logged_best, image, epoch, train_ret,
                 total_steps, passVars, passLog, train_calls, test_calls,
                 entry_state, first_ret, first_log>>

\* ------------------------------------------------------------------- run
IsBetterOrTie(acc, loss, bacc, bloss) ==
  RatLess(bacc, acc) \/ RatEq(acc, bacc)

\* test_acc > best_acc or (test_acc == best_acc and test_loss < best_loss)
IsBetter(acc, loss, bacc, bloss) ==
  RatLess(bacc, acc) \/ (RatEq(acc, bacc) /\ RatLess(loss, bloss))

HistoryEntryOfTrain(trainr, testr) == trainr.acc

\* What l_acc.append(test_acc) appends.
HistoryEntry(trainr, testr) == testr.acc

\* The rest of the loop body once _test has returned: the history, the Best
\* Snapshot, the three log lines, and on to the next epoch.  The four locals
\* train_loss, train_acc, test_loss, test_acc are dead once logged (the next
\* epoch assigns them before any read) and are dropped here.
EpochEnd ==
  /\ pc = "test_ret"
  /\ l_epo' = Append(l_epo, epoch)
  /\ l_acc' = Append(l_acc, HistoryEntry(train_ret, test_ret))
  /\ IF IsBetter(test_ret.acc, test_ret.loss, best_acc, best_loss)
       THEN /\ best_acc' = test_ret.acc
            /\ best_loss' = test_ret.loss
       ELSE UNCHANGED <<best_acc, best_loss>>
  /\ epoch' = epoch + 1
  /\ train_ret' = NoRet
  /\ test_ret' = NoRet
  /\ pc' = "loop"
  /\ UNCHANGED <<err, argVars, dataVars, params, training, stepVars,
                 total_steps, logged_best, image, passVars, histVars>>

\* After the loop: the Best Snapshot is logged, the history plotted and saved.
Finish ==
  /\ pc = "loop"
  /\ epoch >= num_epoch
  /\ logged_best' = <<[loss |-> best_loss, acc |-> best_acc]>>
  /\ image' = <<l_epo, l_acc>>
  /\ pc' = "done"
  /\ UNCHANGED <<err, argVars, dataVars, params, training, stepVars, best_acc,
                 best_loss, l_epo, l_acc, epoch, train_ret, test_ret,
                 total_steps, passVars, histVars>>

Next ==
  \/ Construct
  \/ RunSetup
  \/ TrainEnter
  \/ TrainForward
  \/ OptimizerStep
  \/ SchedulerStep
  \/ TrainAccumulate
  \/ TrainReturn
  \/ TestEnter
  \/ TestBatch
  \/ TestReturn
  \/ EpochEnd
  \/ Finish

Spec == Init /\ [][Next]_vars

\* The execution is one thread: whatever step is next is taken.
LiveSpec == Spec /\ WF_vars(Next)

\* ------------------------------------------- _test called twice in a row
\* An Instructor whose data is loaded and whose model is in any state, about
\* to call _test.
InitTest ==
  /\ pc = "test_call"
  /\ err = "none"
  /\ model_name \in {"bert", "roberta"}
  /\ method_name \in {"fnn", "lstm"}
  /\ num_epoch = 0
  /\ loaded = TRUE
  /\ train_dataloader = <<>>
  /\ test_dataloader \in {BatchesOf(n, bs) : n \in 0..MaxTestSamples, bs \in 1..MaxBatchSize}
  /\ params \in Params
  /\ training \in BOOLEAN
  /\ optimizer_steps = 0
  /\ scheduler_steps = 0
  /\ total_steps = 0
  /\ epoch = 0
  /\ i = 0
  /\ predicts = 0
  /\ tot_loss = 0
  /\ n_correct = 0
  /\ n_total = 0
  /\ train_ret = NoRet
  /\ test_ret = NoRet
  /\ best_acc = Zero
  /\ best_loss = Zero
  /\ l_epo = <<>>
  /\ l_acc = <<>>
  /\ logged_best = <<>>
  /\ image = <<>>
  /\ passLog = <<>>
  /\ results = <<>>
  /\ train_calls = 0
  /\ test_calls = 0
  /\ entry_state = <<0, 0, 0>>
  /\ first_ret = NoRet
  /\ first_log = <<>>

\* The caller keeps what the first call returned and calls _test again on the
\* same stream.
Retest ==
  /\ pc = "test_ret"
  /\ test_calls < 2
  /\ first_ret' = test_ret
  /\ first_log' = passLog
  /\ pc' = "test_call"
  /\ UNCHANGED <<err, argVars, dataVars, params, training, stepVars, runVars,
                 passVars, passLog, results, train_calls, test_calls,
                 entry_state>>

NextTest ==
  \/ TestEnter
  \/ TestBatch
  \/ TestReturn
  \/ Retest

SpecTest == InitTest /\ [][NextTest]_vars

\* ======================================================== the properties
One == Frac(1, 1)
ValidConfig == model_name \in {"bert", "roberta"} /\ method_name \in {"fnn", "lstm"}
InTrain == pc \in {"train_head", "train_opt", "train_sched", "train_acc", "train_ret"}

RECURSIVE SumWeightedLoss(_)
SumWeightedLoss(log) ==
  IF log = <<>> THEN 0 ELSE log[1][2] * log[1][1] + SumWeightedLoss(Tail(log))
RECURSIVE SumSize(_)
SumSize(log) == IF log = <<>> THEN 0 ELSE log[1][1] + SumSize(Tail(log))
RECURSIVE SumHits(_)
SumHits(log) == IF log = <<>> THEN 0 ELSE log[1][3] + SumHits(Tail(log))

\* The pass read every batch of the stream, in order.
Covers(log, stream) ==
  /\ Len(log) = Len(stream)
  /\ \A k \in 1..Len(log) : log[k][1] = stream[k]

\* Epoch result r beats epoch result s: higher accuracy, or the same accuracy
\* at a lower loss.
Beats(r, s) ==
  RatLess(s.acc, r.acc) \/ (RatEq(r.acc, s.acc) /\ RatLess(r.loss, s.loss))

\* C1: once run is done after at least one epoch, the Best Snapshot
\* (best_acc, best_loss) is one of the epochs' test results, and no epoch's
\* result beats it: it is the result of maximum accuracy, ties broken by
\* minimum loss.
C1_FinalBestIsArgmax ==
  (pc = "done" /\ Len(results) > 0) =>
    \E k \in 1..Len(results) :
      /\ RatEq(best_acc, results[k].acc)
      /\ RatEq(best_loss, results[k].loss)
      /\ \A j \in 1..Len(results) : ~Beats(results[j], results[k])

\* C2: the step that ends an epoch replaces the Best Snapshot by the epoch's
\* (test_acc, test_loss) exactly when test_acc > best_acc, or test_acc =
\* best_acc and test_loss < best_loss, and otherwise leaves it alone; so
\* best_acc never decreases and best_loss never increases while best_acc
\* stays.  No other step of the loop touches the Best Snapshot.
C2_BestSnapshotUpdate ==
  [][IF pc = "test_ret"
       THEN LET better == \/ RatLess(best_acc, test_ret.acc)
                          \/ /\ RatEq(test_ret.acc, best_acc)
                             /\ RatLess(test_ret.loss, best_loss)
            IN  /\ better => (best_acc' = test_ret.acc /\ best_loss' = test_ret.loss)
                /\ ~better => UNCHANGED <<best_acc, best_loss>>
                /\ RatLeq(best_acc, best_acc')
                /\ RatEq(best_acc', best_acc) => RatLeq(best_loss', best_loss)
       ELSE pc # "constructed" => UNCHANGED <<best_acc, best_loss>>]_vars

\* A tie on accuracy at a strictly lower loss has replaced the snapshot.
C2_Witness ==
  /\ pc = "loop"
  /\ Len(results) = 2
  /\ RatEq(results[1].acc, results[2].acc)
  /\ RatLess(results[2].loss, results[1].loss)
  /\ best_loss = results[2].loss

\* C3: from its call to its return _test leaves the parameters, the optimizer
\* step count and the scheduler step count as they were when it was called,
\* and a second call right after the first, on the same batches, computes the
\* same logits, losses and correct counts batch by batch and returns the same
\* (loss, accuracy).
C3_TestLeavesModelState ==
  /\ pc \in {"test_head", "test_ret"} =>
       <<params, optimizer_steps, scheduler_steps>> = entry_state
  /\ (pc = "test_ret" /\ test_calls = 2) =>
       (test_ret = first_ret /\ passLog = first_log)

\* The second of two calls over a stream of two batches has returned.
C3_Witness ==
  /\ pc = "test_ret"
  /\ test_calls = 2
  /\ Len(passLog) = 2
  /\ Len(first_log) = 2

\* C4: once the constructor has run with a model_name outside {bert, roberta}
\* or a method_name outside {fnn, lstm}, the execution has ended in a
\* configuration error: load_data was never called, no training or evaluation
\* pass was entered, no epoch was run.
C4_ConfigErrorBeforeData ==
  (pc # "start" /\ ~ValidConfig) =>
    /\ pc = "error"
    /\ err \in {"unknown model", "unknown method"}
    /\ ~loaded
    /\ train_calls = 0
    /\ test_calls = 0
    /\ epoch = 0
    /\ optimizer_steps = 0
    /\ l_acc = <<>>

\* The constructor has refused a known model with an unknown method.
C4_Witness ==
  /\ pc = "error"
  /\ model_name = "roberta"
  /\ method_name = "cnn"
  /\ err = "unknown method"

\* C5: when a pass over a non-empty stream returns, it has read every batch
\* of the stream, its mean loss is sum(l_i * b_i) / sum(b_i) and its accuracy
\* is (sum of the batches' correct counts) / sum(b_i); for _train and _test.
C5_PassMeans ==
  /\ pc = "train_ret" =>
       /\ Covers(passLog, train_dataloader)
       /\ train_ret.loss = Frac(SumWeightedLoss(passLog), SumSize(passLog))
       /\ train_ret.acc = Frac(SumHits(passLog), SumSize(passLog))
  /\ pc = "test_ret" =>
       /\ Covers(passLog, test_dataloader)
       /\ test_ret.loss = Frac(SumWeightedLoss(passLog), SumSize(passLog))
       /\ test_ret.acc = Frac(SumHits(passLog), SumSize(passLog))

\* A training pass over two batches of different sizes and different losses
\* has returned.
C5_Witness ==
  /\ pc = "train_ret"
  /\ Len(passLog) = 2
  /\ passLog[1][1] # passLog[2][1]
  /\ passLog[1][2] # passLog[2][2]

\* C6: at every point of a pass 0 <= n_correct <= n_train (n_test), and every
\* accuracy a pass has returned, and every accuracy in the history, lies in
\* [0, 1].
C6_AccuracyInUnitInterval ==
  /\ 0 <= n_correct
  /\ n_correct <= n_total
  /\ RatLeq(Zero, train_ret.acc) /\ RatLeq(train_ret.acc, One)
  /\ RatLeq(Zero, test_ret.acc) /\ RatLeq(test_ret.acc, One)
  /\ \A k \in 1..Len(l_acc) : RatLeq(Zero, l_acc[k]) /\ RatLeq(l_acc[k], One)

\* Every sample of a training pass of at least two samples was predicted
\* right.
C6_Witness ==
  /\ pc = "train_ret"
  /\ n_total >= 2
  /\ n_correct = n_total
  /\ RatEq(train_ret.acc, One)

\* C7: a pass of _train or _test that read no batch (an empty stream, zero
\* samples counted) does not end in a division by zero: it returns.
C7_EmptyPassReturns ==
  ~(pc = "error" /\ err = "ZeroDivisionError" /\ passLog = <<>> /\ n_total = 0)

\* C8: in epoch k (k epochs completed) the training pass is the (k+1)-th call
\* of _train and starts only when k evaluations, k history entries and k
\* snapshot updates are behind it; the evaluation is the (k+1)-th call of
\* _test, starts only after that training pass has returned, and reads a
\* model that has received every optimizer step of epochs 0..k and no other.
C8_TrainThenTestPerEpoch ==
  /\ pc \in {"loop", "done"} =>
       /\ train_calls = epoch
       /\ test_calls = epoch
       /\ Len(results) = epoch
       /\ Len(l_acc) = epoch
  /\ InTrain =>
       /\ train_calls = epoch + 1
       /\ test_calls = epoch
       /\ Len(results) = epoch
       /\ Len(l_acc) = epoch
  /\ pc \in {"test_head", "test_ret"} =>
       /\ train_calls = epoch + 1
       /\ test_calls = epoch + 1
       /\ Len(results) = (IF pc = "test_ret" THEN epoch + 1 ELSE epoch)
       /\ Len(l_acc) = epoch
       /\ optimizer_steps = (epoch + 1) * Len(train_dataloader)
       /\ entry_state[2] = optimizer_steps

\* The evaluation of the second epoch is under way.
C8_Witness ==
  /\ pc = "test_head"
  /\ epoch = 1
  /\ i = 1
  /\ optimizer_steps >= 2

\* What holds of the state when run is done, and before.
C9_DoneState ==
  /\ pc = "done" =>
       /\ epoch = num_epoch
       /\ Len(l_epo) = num_epoch
       /\ Len(l_acc) = num_epoch
       /\ Len(results) = num_epoch
       /\ \A k \in 1..num_epoch : l_epo[k] = k - 1 /\ l_acc[k] = results[k].acc
       /\ image = <<l_epo, l_acc>>
       /\ logged_best = <<[loss |-> best_loss, acc |-> best_acc]>>
       /\ num_epoch = 0 => (l_acc = <<>> /\ best_acc = Zero /\ best_loss = Zero)
  /\ pc # "done" => (image = <<>> /\ logged_best = <<>>)

\* C9: every execution of run that meets no error reaches Done; the Best
\* Snapshot is logged and the plot saved only at Done, and there exactly
\* num_epoch epochs have run and the history holds num_epoch entries, the
\* k-th being (k, the test accuracy of epoch k), k = 0..num_epoch-1 (an empty
\* history and the Best Snapshot (0, 0) when num_epoch = 0).
C9_RunReachesDone ==
  /\ []C9_DoneState
  /\ <>(pc = "done" \/ err # "none")

\* run is done after two epochs whose test accuracies differ.
C9_Witness ==
  /\ pc = "done"
  /\ num_epoch = 2
  /\ Len(l_acc) = 2
  /\ ~RatEq(l_acc[1], l_acc[2])

\* C10: in the training loop every optimizer step is followed at once by one
\* scheduler step, so the two counts are equal after every batch (and equal
\* to the number of batches trained on so far); the scheduler is never
\* advanced beyond the total_steps it was configured with, and at Done it has
\* been advanced exactly len(train_dataloader) * num_epoch = total_steps
\* times.
C10_StepCounts ==
  /\ pc \in {"train_head", "train_opt"} =>
       /\ optimizer_steps = scheduler_steps
       /\ scheduler_steps = epoch * Len(train_dataloader) + i
  /\ pc = "train_sched" =>
       /\ optimizer_steps = scheduler_steps + 1
       /\ scheduler_steps = epoch * Len(train_dataloader) + i
  /\ pc = "train_acc" =>
       /\ optimizer_steps = scheduler_steps
       /\ scheduler_steps = epoch * Len(train_dataloader) + i + 1
  /\ pc \notin {"train_sched"} => optimizer_steps = scheduler_steps
  /\ loaded => scheduler_steps <= total_steps
  /\ pc = "done" =>
       /\ scheduler_steps = Len(train_dataloader) * num_epoch
       /\ scheduler_steps = total_steps

\* run is done after two epochs over a train stream of two batches.
C10_Witness ==
  /\ pc = "done"
  /\ num_epoch = 2
  /\ Len(train_dataloader) = 2
  /\ scheduler_steps = 4
=============================================================================
